---- MODULE Spec2Model ----
(***************************************************************************)
(* Signal viewer front end: the continuous viewer's viewport and playback  *)
(* loop, the recurrence and polar viewers, normalizeData, formatChartData, *)
(* and the upload / signal-load / EEG-prediction request handlers.         *)
(*                                                                         *)
(* Numbers.  Viewport positions and the playback speed are JavaScript      *)
(* doubles.  The model holds them in HALVES (the integer h stands for      *)
(* h/2) and lets the speed slider take the dyadic values 1 and 2.5,        *)
(* for which every sum, product and Math.floor below is exact in IEEE      *)
(* arithmetic, so the integer formulas compute what the code computes.     *)
(***************************************************************************)
EXTENDS Integers, Sequences, FiniteSets, TLC

Min2(a, b) == IF a <= b THEN a ELSE b
Max2(a, b) == IF a >= b THEN a ELSE b

\* the integer n, in halves
Halves(n) == 2 * n

(***************************************************************************)
(* Bounds of the continuous-viewer model.                                  *)
(***************************************************************************)
\* lengths of timeData in the loaded data sets: one below the minimum zoom
\* range, one between it and the default window, one above the window
LenShort == 40
LenMid == 120
LenLong == 504
\* number of viewport operations (zoom, pan, Reset, animation frame) followed
\* in one behaviour: an inverted viewport drifts without limit under Pan, and
\* playback over data without time labels never stops by itself
MaxOps == 4

\* upload responses: at most MaxChannels rows of at most MaxSamples samples
MaxChannels == 2
MaxSamples == 2

\* requests one component has in flight at a time
MaxInFlight == 2

\* the longest time axis given to the recurrence viewer and to the chart
MaxTime == 4

\* render rounds followed after a handler until the effects settle
MaxRounds == 4
\* playback on data without a time axis is followed up to this window end
MaxPlayEnd == 520

(***************************************************************************)
(* Program constants of the continuous viewer.                             *)
(***************************************************************************)
DefaultWindow == 500
MinZoomRange == 50

VARIABLES
  cvData,        \* shape of the data prop: loaded, channels.length, timeData.length
  viewport,      \* [start, end], in halves
  playback,      \* [playing, speed], speed in halves
  animationRef,  \* animationRef.current: id of the last requested frame, 0 = undefined
  frames,        \* the browser's pending animation-frame callbacks
  mounted,       \* the component is mounted
  opsRun,        \* viewport operations run so far
  lastOp         \* the operation that produced this state

cvVars == <<cvData, viewport, playback, animationRef, frames, mounted, opsRun, lastOp>>

VARIABLES
  data,          \* the upload response held by the application (the viewers' data prop)
  bundle         \* the normalized bundle each viewer derives from it

nmVars == <<data, bundle>>

VARIABLES
  focus,         \* the request component this behaviour follows ("none" at first)
  signalType,    \* FileUploader's signalType prop
  uploader,      \* FileUploader state: [uploading, error]
  upInflight,    \* upload requests awaiting their response
  upLast,        \* the last FileUploader event and what it did
  selector,      \* SignalSelector state: [loading, error]
  selInflight,   \* getSignal requests awaiting their response
  selFetching,   \* getSignals requests awaiting their response
  eegAnalysis,   \* Analysis/EEGPrediction state: [loading, error]
  eegAnInflight, \* its predict requests awaiting their response
  eegEnsemble,   \* the ensemble EEGPrediction state: [loading, error]
  eegEnInflight  \* its predict requests awaiting their response

upVars == <<signalType, uploader, upInflight, upLast>>
selVars == <<selector, selInflight, selFetching>>
eegAnVars == <<eegAnalysis, eegAnInflight>>
eegEnVars == <<eegEnsemble, eegEnInflight>>
rqVars == <<focus, upVars, selVars, eegAnVars, eegEnVars>>

VARIABLES
  pvData,          \* the polar viewer's data prop (an upload response)
  selectedChannel, \* 0-based, as in the code
  mode,            \* "cumulative" or "sliding"
  timeWindow,
  currentIndex,    \* 0-based
  pvPlayback,      \* the polar viewer's playback flag
  pvSpeed,         \* the polar viewer's speed
  pvTimerRef,      \* its animationRef.current: id of the last timer set, 0 = undefined
  timers,          \* the browser's pending setTimeout callbacks
  pvMounted,
  pvNormalize,     \* the polar viewer's Normalize Radius flag
  pvLastOp         \* the operation that produced this state

pvVars == <<pvData, selectedChannel, mode, timeWindow, currentIndex, pvPlayback,
            pvSpeed, pvTimerRef, timers, pvMounted, pvNormalize, pvLastOp>>

VARIABLES
  rvData,          \* the recurrence viewer's data prop (an upload response)
  channelX,        \* 0-based, as in the code
  channelY,
  timeStart,
  timeEnd,
  threshold,       \* in hundredths
  normalize,
  rvError,         \* the recurrence viewer's error
  recurrence,      \* the last value of recurrenceData
  rvLastOp         \* the operation that produced this state

rvVars == <<rvData, channelX, channelY, timeStart, timeEnd, threshold, normalize,
            rvError, recurrence, rvLastOp>>

VARIABLES
  chData,          \* the data prop of the charted continuous viewer
  chViewport,      \* its viewport, in halves
  visibleChannels, \* channel index -> BOOLEAN, over the keys that were set
  chartData,       \* the last value of formatChartData()
  chOps            \* viewport operations run so far

chVars == <<chData, chViewport, visibleChannels, chartData, chOps>>

vars == <<cvVars, nmVars, rqVars, pvVars, rvVars, chVars>>

\* a step of one component leaves the other components alone
CvAlone == UNCHANGED <<nmVars, rqVars, pvVars, rvVars, chVars>>
NmAlone == UNCHANGED <<cvVars, rqVars, pvVars, rvVars, chVars>>
RqAlone == UNCHANGED <<cvVars, nmVars, pvVars, rvVars, chVars>>
PvAlone == UNCHANGED <<cvVars, nmVars, rqVars, rvVars, chVars>>
RvAlone == UNCHANGED <<cvVars, nmVars, rqVars, pvVars, chVars>>
ChAlone == UNCHANGED <<cvVars, nmVars, rqVars, pvVars, rvVars>>

(***************************************************************************)
(* Continuous viewer                                                       *)
(***************************************************************************)
NoData == [loaded |-> FALSE, nch |-> 0, tlen |-> 0]

\* the data sets the upload can deliver, by shape
DataShapes ==
  { [loaded |-> TRUE, nch |-> 2, tlen |-> t] : t \in {0, LenShort, LenMid, LenLong} }

\* requestAnimationFrame(animate): a fresh id for a callback that closes over
\* playback.speed and timeData.length of the render that created it
FreshId(q, ref) ==
  CHOOSE i \in 1..(Cardinality(q) + 2) :
    /\ i # ref
    /\ \A f \in q : f.id # i
    /\ \A j \in 1..(i - 1) : j = ref \/ \E f \in q : f.id = j

requestAnimationFrame(q, ref, speed, tlen) ==
  LET id == FreshId(q, ref)
  IN  [q |-> q \cup {[id |-> id, speed |-> speed, tlen |-> tlen]}, ref |-> id]

cancelAnimationFrame(q, ref) == {f \in q : f.id # ref}

\* a cleanup that leaves the requested frame in the browser's queue
PlaybackCleanupNoCancel(q, ref) == [q |-> q, ref |-> ref]

\* the playback effect's cleanup
PlaybackCleanup(q, ref) == [q |-> cancelAnimationFrame(q, ref), ref |-> ref]

\* the playback effect's body
PlaybackBody(q, ref, pb, tlen) ==
  IF pb.playing
    THEN requestAnimationFrame(q, ref, pb.speed, tlen)
    ELSE [q |-> cancelAnimationFrame(q, ref), ref |-> ref]

\* the playback effect across a render: cleanup and body run when one of
\* [playback.playing, playback.speed, timeData.length] has changed
PlaybackEffect(q, ref, oldPb, oldLen, pb, tlen) ==
  IF oldPb = pb /\ oldLen = tlen
    THEN [q |-> q, ref |-> ref]
    ELSE LET c == PlaybackCleanup(q, ref)
         IN  PlaybackBody(c.q, c.ref, pb, tlen)

\* the initialisation effect: the viewport given to newly loaded data
InitViewport(d, vp) ==
  IF d.nch > 0 /\ d.tlen > 0
    THEN [start |-> 0, end |-> Halves(Min2(DefaultWindow, d.tlen))]
    ELSE vp

zoomInViewport(vp, tlen) ==
  LET range == vp.end - vp.start
      newRange == Max2(MinZoomRange, range \div 3)
      center4 == vp.start + vp.end
  IN  [start |-> Halves(Max2(0, (center4 - 2 * newRange) \div 4)),
       end   |-> Halves(Min2(tlen, (center4 + 2 * newRange) \div 4))]

zoomOutViewport(vp, tlen) ==
  LET range == vp.end - vp.start
      newRange == Min2(tlen, (3 * range) \div 4)
      center4 == vp.start + vp.end
  IN  [start |-> Halves(Max2(0, (center4 - 2 * newRange) \div 4)),
       end   |-> Halves(Min2(tlen, (center4 + 2 * newRange) \div 4))]

panLeftViewport(vp) ==
  LET range == vp.end - vp.start
      shift == Halves(range \div 10)
  IN  [start |-> Max2(0, vp.start - shift),
       end   |-> Max2(range, vp.end - shift)]

\* a Pan Right that clamps the end of the window only
panRightViewportEndOnly(vp, tlen) ==
  LET range == vp.end - vp.start
      shift == Halves(range \div 10)
  IN  [start |-> vp.start + shift,
       end   |-> Min2(Halves(tlen), vp.end + shift)]

panRightViewport(vp, tlen) ==
  LET range == vp.end - vp.start
      shift == Halves(range \div 10)
      maxEnd == Halves(tlen)
  IN  [start |-> Min2(maxEnd - range, vp.start + shift),
       end   |-> Min2(maxEnd, vp.end + shift)]

\* the updater of a frame without the "Stop if we reach the end" test
frameViewportNoStop(vp, speed, tlen) ==
  [start |-> vp.start + speed, end |-> vp.end + speed]

\* the updater of a frame: prev when the shifted end reaches the end of the
\* data, else the viewport shifted by the speed
frameViewport(vp, speed, tlen) ==
  IF tlen > 0 /\ vp.end + speed >= Halves(tlen) THEN vp
  ELSE [start |-> vp.start + speed, end |-> vp.end + speed]

resetViewport == [start |-> 0, end |-> Halves(DefaultWindow)]

CvInit ==
  /\ cvData = NoData
  /\ viewport = [start |-> 0, end |-> Halves(DefaultWindow)]
  /\ playback = [playing |-> FALSE, speed |-> Halves(1)]
  /\ animationRef = 0
  /\ frames = {}
  /\ mounted = TRUE
  /\ opsRun = 0
  /\ lastOp = "mount"

\* the controls are rendered once data is there
Interactive == mounted /\ cvData.loaded

\* the exploration bound on viewport operations
MayOperate == opsRun < MaxOps

\* a new data prop: the initialisation effect, then the playback effect
LoadData(d) ==
  /\ mounted
  /\ cvData' = d
  /\ viewport' = InitViewport(d, viewport)
  /\ LET e == PlaybackEffect(frames, animationRef, playback, cvData.tlen, playback, d.tlen)
     IN  frames' = e.q /\ animationRef' = e.ref
  /\ lastOp' = "load"
  /\ CvAlone
  /\ UNCHANGED <<playback, mounted, opsRun>>

handleZoomIn ==
  /\ Interactive
  /\ MayOperate
  /\ viewport' = zoomInViewport(viewport, cvData.tlen)
  /\ lastOp' = "zoomIn"
  /\ CvAlone
  /\ opsRun' = opsRun + 1
  /\ UNCHANGED <<cvData, playback, animationRef, frames, mounted>>

handleZoomOut ==
  /\ Interactive
  /\ MayOperate
  /\ viewport' = zoomOutViewport(viewport, cvData.tlen)
  /\ lastOp' = "zoomOut"
  /\ CvAlone
  /\ opsRun' = opsRun + 1
  /\ UNCHANGED <<cvData, playback, animationRef, frames, mounted>>

handlePanLeft ==
  /\ Interactive
  /\ MayOperate
  /\ viewport' = panLeftViewport(viewport)
  /\ lastOp' = "panLeft"
  /\ CvAlone
  /\ opsRun' = opsRun + 1
  /\ UNCHANGED <<cvData, playback, animationRef, frames, mounted>>

handlePanRight ==
  /\ Interactive
  /\ MayOperate
  /\ viewport' = panRightViewport(viewport, cvData.tlen)
  /\ lastOp' = "panRight"
  /\ CvAlone
  /\ opsRun' = opsRun + 1
  /\ UNCHANGED <<cvData, playback, animationRef, frames, mounted>>

Reset ==
  /\ Interactive
  /\ MayOperate
  /\ viewport' = resetViewport
  /\ lastOp' = "reset"
  /\ CvAlone
  /\ opsRun' = opsRun + 1
  /\ UNCHANGED <<cvData, playback, animationRef, frames, mounted>>

\* the Play/Pause button
TogglePlay ==
  /\ Interactive
  /\ playback' = [playback EXCEPT !.playing = ~playback.playing]
  /\ LET e == PlaybackEffect(frames, animationRef, playback, cvData.tlen,
                             playback', cvData.tlen)
     IN  frames' = e.q /\ animationRef' = e.ref
  /\ lastOp' = IF playback.playing THEN "pause" ELSE "play"
  /\ CvAlone
  /\ UNCHANGED <<cvData, viewport, mounted, opsRun>>

\* the speed slider
SetSpeed(s) ==
  /\ Interactive
  /\ playback' = [playback EXCEPT !.speed = s]
  /\ LET e == PlaybackEffect(frames, animationRef, playback, cvData.tlen,
                             playback', cvData.tlen)
     IN  frames' = e.q /\ animationRef' = e.ref
  /\ lastOp' = "speed"
  /\ CvAlone
  /\ UNCHANGED <<cvData, viewport, mounted, opsRun>>

\* one animation frame: the browser runs the callback f.  Its updater works
\* on the current viewport with the speed and length f closed over, the
\* callback requests the next frame, and the render that follows runs the
\* playback effect if the updater has stopped playback.  On an unmounted
\* component the state setters do nothing.
animateFrame(f, shifted) ==
  /\ f \in frames
  /\ LET stop == f.tlen > 0 /\ viewport.end + f.speed >= Halves(f.tlen)
         r == requestAnimationFrame(frames \ {f}, animationRef, f.speed, f.tlen)
         pb == IF stop /\ mounted THEN [playback EXCEPT !.playing = FALSE] ELSE playback
         e == PlaybackEffect(r.q, r.ref, playback, cvData.tlen, pb, cvData.tlen)
     IN  /\ viewport' = IF mounted THEN shifted ELSE viewport
         /\ playback' = pb
         /\ frames' = e.q
         /\ animationRef' = e.ref
  /\ lastOp' = "frame"
  /\ CvAlone
  /\ UNCHANGED <<cvData, mounted>>

\* a frame within the exploration bound
animate(f) ==
  /\ MayOperate
  /\ opsRun' = opsRun + 1
  /\ animateFrame(f, frameViewport(viewport, f.speed, f.tlen))

\* teardown: the playback effect's cleanup
Unmount ==
  /\ mounted
  /\ mounted' = FALSE
  /\ LET c == PlaybackCleanup(frames, animationRef)
     IN  frames' = c.q /\ animationRef' = c.ref
  /\ lastOp' = "unmount"
  /\ CvAlone
  /\ UNCHANGED <<cvData, viewport, playback, opsRun>>

Next ==
  \/ \E d \in DataShapes : LoadData(d)
  \/ handleZoomIn
  \/ handleZoomOut
  \/ handlePanLeft
  \/ handlePanRight
  \/ Reset
  \/ TogglePlay
  \/ \E s \in {2, 5} : SetSpeed(s)
  \/ \E f \in frames : animate(f)
  \/ Unmount

\* one animation frame of an unattended playback; a window that has run
\* past MaxPlayEnd is no longer followed, the frames go on with it held
playFrame(f) ==
  /\ animateFrame(f, IF viewport.end < Halves(MaxPlayEnd)
                       THEN frameViewport(viewport, f.speed, f.tlen)
                       ELSE viewport)
  /\ UNCHANGED opsRun

\* Playback left alone: the user loads data, sets the speed and the window
\* and presses Play while the viewer is paused; from then on only the
\* browser's animation frames run.
NextPlayback ==
  \/ ~playback.playing /\ \E d \in DataShapes : LoadData(d)
  \/ ~playback.playing /\ handleZoomIn
  \/ ~playback.playing /\ \E s \in {2, 5} : SetSpeed(s)
  \/ ~playback.playing /\ TogglePlay
  \/ \E f \in frames : playFrame(f)


(***************************************************************************)
(* normalizeData: upload response -> {channels, timeData, channelNames,    *)
(* isStock}, once per viewer.  An optional field of the response is <<>>   *)
(* when absent and <<value>> when present.                                 *)
(***************************************************************************)
None == <<>>
Some(x) == <<x>>
Present(o) == o # <<>>
\* o || []
OrEmpty(o) == IF Present(o) THEN o[1] ELSE <<>>

\* `Channel ${i+1}` for the 0-based index i = k - 1
ChannelLabel(k) == <<"Channel 1", "Channel 2", "Channel 3", "Channel 4">>[k]

\* Array(n).fill(0).map((_, i) => `Channel ${i+1}`)
SynthNames(n) == [k \in 1..n |-> ChannelLabel(k)]

EmptyBundle == [channels |-> <<>>, timeData |-> <<>>, channelNames |-> <<>>, isStock |-> FALSE]

\* the responses: rows of zeros (normalizeData never reads a sample), time in
\* seconds, date labels as day numbers
Optional(S) == {None} \cup { Some(x) : x \in S }

Responses ==
  LET Rows == UNION { [1..n -> {0}] : n \in 0..MaxSamples }
  IN  [ type : {"stock", "medical"},
        date_labels : Optional({ [i \in 1..n |-> 20240100 + i] : n \in 0..MaxSamples }),
        channel_names : Optional({ SubSeq(<<"ECG", "EEG", "EMG", "EOG">>, 1, n) :
                                   n \in 0..MaxChannels }),
        data : Optional(UNION { [1..n -> Rows] : n \in 0..MaxChannels }),
        time : Optional({ [i \in 1..n |-> i - 1] : n \in 0..MaxSamples }),
        channels : 0..MaxChannels ]

\* no response yet: the data prop is null
NoResponse == [type |-> "none", date_labels |-> None, channel_names |-> None,
               data |-> None, time |-> None, channels |-> 0]

\* ContinuousViewer.normalizeData with the stock branch reading data.time
ContinuousNormalizeDataStockTime(d) ==
  IF d = NoResponse THEN EmptyBundle
  ELSE IF d.type = "stock" /\ Present(d.date_labels) THEN
    [channels |-> OrEmpty(d.data),
     timeData |-> OrEmpty(d.time),
     channelNames |-> IF Present(d.channel_names) THEN d.channel_names[1]
                      ELSE IF Present(d.data) THEN SynthNames(Len(d.data[1]))
                      ELSE <<>>,
     isStock |-> TRUE]
  ELSE IF Present(d.channel_names) THEN
    [channels |-> OrEmpty(d.data),
     timeData |-> OrEmpty(d.time),
     channelNames |-> d.channel_names[1],
     isStock |-> FALSE]
  ELSE IF Present(d.data) THEN
    [channels |-> d.data[1],
     timeData |-> OrEmpty(d.time),
     channelNames |-> IF d.channels # 0 THEN SynthNames(d.channels) ELSE <<>>,
     isStock |-> FALSE]
  ELSE EmptyBundle

ContinuousNormalizeData(d) ==
  IF d = NoResponse THEN EmptyBundle
  ELSE IF d.type = "stock" /\ Present(d.date_labels) THEN
    [channels |-> OrEmpty(d.data),
     timeData |-> d.date_labels[1],
     channelNames |-> IF Present(d.channel_names) THEN d.channel_names[1]
                      ELSE IF Present(d.data) THEN SynthNames(Len(d.data[1]))
                      ELSE <<>>,
     isStock |-> TRUE]
  ELSE IF Present(d.channel_names) THEN
    [channels |-> OrEmpty(d.data),
     timeData |-> OrEmpty(d.time),
     channelNames |-> d.channel_names[1],
     isStock |-> FALSE]
  ELSE IF Present(d.data) THEN
    [channels |-> d.data[1],
     timeData |-> OrEmpty(d.time),
     channelNames |-> IF d.channels # 0 THEN SynthNames(d.channels) ELSE <<>>,
     isStock |-> FALSE]
  ELSE EmptyBundle

\* the final return of the recurrence and polar versions leaves isStock
\* undefined, which every use treats as false
RecurrenceNormalizeData(d) ==
  IF d = NoResponse THEN EmptyBundle
  ELSE IF d.type = "stock" /\ Present(d.date_labels) THEN
    [channels |-> OrEmpty(d.data),
     timeData |-> d.date_labels[1],
     channelNames |-> OrEmpty(d.channel_names),
     isStock |-> TRUE]
  ELSE IF Present(d.channel_names) THEN
    [channels |-> OrEmpty(d.data),
     timeData |-> OrEmpty(d.time),
     channelNames |-> d.channel_names[1],
     isStock |-> FALSE]
  ELSE IF Present(d.data) THEN
    [channels |-> d.data[1],
     timeData |-> OrEmpty(d.time),
     channelNames |-> IF d.channels # 0 THEN SynthNames(d.channels) ELSE <<>>,
     isStock |-> FALSE]
  ELSE EmptyBundle

PolarNormalizeData(d) ==
  IF d = NoResponse THEN EmptyBundle
  ELSE IF d.type = "stock" /\ Present(d.date_labels) THEN
    [channels |-> OrEmpty(d.data),
     timeData |-> d.date_labels[1],
     channelNames |-> OrEmpty(d.channel_names),
     isStock |-> TRUE]
  ELSE IF Present(d.channel_names) THEN
    [channels |-> OrEmpty(d.data),
     timeData |-> OrEmpty(d.time),
     channelNames |-> d.channel_names[1],
     isStock |-> FALSE]
  ELSE IF Present(d.data) THEN
    [channels |-> d.data[1],
     timeData |-> OrEmpty(d.time),
     channelNames |-> IF d.channels # 0 THEN SynthNames(d.channels) ELSE <<>>,
     isStock |-> FALSE]
  ELSE EmptyBundle

Viewers == {"continuous", "recurrence", "polar"}

normalizeData(v, d) ==
  CASE v = "continuous" -> ContinuousNormalizeData(d)
    [] v = "recurrence" -> RecurrenceNormalizeData(d)
    [] v = "polar" -> PolarNormalizeData(d)

NmInit ==
  /\ data = NoResponse
  /\ bundle = [v \in Viewers |-> normalizeData(v, NoResponse)]

\* a successful upload hands its response to the application, and every
\* viewer renders with the new data prop
onDataLoaded(r) ==
  /\ NmAlone
  /\ data = NoResponse
  /\ data' = r
  /\ bundle' = [v \in Viewers |-> normalizeData(v, r)]

\* the bundle is discarded on navigation or before a new upload
discardData ==
  /\ NmAlone
  /\ data # NoResponse
  /\ data' = NoResponse
  /\ bundle' = [v \in Viewers |-> normalizeData(v, NoResponse)]

NextNormalize ==
  \/ \E r \in (IF data = NoResponse THEN Responses ELSE {}) : onDataLoaded(r)
  \/ discardData


(***************************************************************************)
(* FileUploader, SignalSelector.handleSignalSelect and the two             *)
(* EEGPrediction components: a request is started by a handler or effect   *)
(* and settled by the continuation after its await (try / catch / finally).*)
(***************************************************************************)
\* null and undefined, among strings
Null == "<null>"
Undefined == "<undefined>"

\* File size limits (in MB)
sizeLimitsAllMedical(t) == 500

sizeLimits(t) ==
  CASE t = "medical" -> 500
    [] t = "acoustic" -> 200
    [] t = "stock" -> 100
    [] t = "microbiome" -> 500

MegaByte == 1024 * 1024

\* `File too large. Max size: ${sizeLimits[signalType]}MB`
TooLargeMessage(t) ==
  CASE sizeLimits(t) = 500 -> "File too large. Max size: 500MB"
    [] sizeLimits(t) = 200 -> "File too large. Max size: 200MB"
    [] sizeLimits(t) = 100 -> "File too large. Max size: 100MB"

\* err.response?.data?.error || 'Error uploading file', without the fallback
uploadErrorTextRaw(e) == e

\* err.response?.data?.error || 'Error uploading file'
uploadErrorText(e) == IF e = Undefined \/ e = "" THEN "Error uploading file" ELSE e

\* the catch block without the finally block
uploadCatchOnly(u, e) == [u EXCEPT !.error = e]

\* catch (err) { setError(...) } finally { setUploading(false) }
uploadCatchFinally(u, e) == [uploading |-> FALSE, error |-> e]

\* a FileUploader event: the operation, the file size and signal type of an
\* uploadFile call, the error payload of a failure, whether the step posted a
\* request and whether it called onDataLoaded, and the uploading flag before
Event(op, size, t, err, posted, called, before) ==
  [op |-> op, size |-> size, type |-> t, err |-> err,
   posted |-> posted, called |-> called, before |-> before]

RqInit ==
  /\ focus = "none"
  /\ signalType = "medical"
  /\ uploader = [uploading |-> FALSE, error |-> Null]
  /\ upInflight = {}
  /\ upLast = Event("mount", 0, "medical", Undefined, FALSE, FALSE, FALSE)
  /\ selector = [loading |-> FALSE, error |-> Null]
  /\ selInflight = 0
  /\ selFetching = 0
  /\ eegAnalysis = [loading |-> FALSE, error |-> Null]
  /\ eegAnInflight = 0
  /\ eegEnsemble = [loading |-> FALSE, error |-> Null]
  /\ eegEnInflight = 0

\* the four components share no state; a behaviour follows one of them
Follow(c) ==
  /\ RqAlone
  /\ focus \in {"none", c}
  /\ focus' = c

\* the parent renders the uploader for another signal type
setSignalType(t) ==
  /\ Follow("FileUploader")
  /\ t # signalType
  /\ signalType' = t
  /\ upLast' = Event("signalType", 0, t, Undefined, FALSE, FALSE, uploader.uploading)
  /\ UNCHANGED <<uploader, upInflight, selVars, eegAnVars, eegEnVars>>

\* uploadFile up to its await: the size check, then the request
uploadFile(size) ==
  /\ Follow("FileUploader")
  /\ IF size > sizeLimits(signalType) * MegaByte
       THEN /\ uploader' = [uploader EXCEPT !.error = TooLargeMessage(signalType)]
            /\ upLast' = Event("uploadFile", size, signalType, Undefined,
                               FALSE, FALSE, uploader.uploading)
            /\ UNCHANGED upInflight
       ELSE /\ Cardinality(upInflight) < MaxInFlight
            /\ uploader' = [uploading |-> TRUE, error |-> Null]
            /\ upInflight' = upInflight \cup
                 {CHOOSE r \in 1..MaxInFlight : r \notin upInflight}
            /\ upLast' = Event("uploadFile", size, signalType, Undefined,
                               TRUE, FALSE, uploader.uploading)
  /\ UNCHANGED <<signalType, selVars, eegAnVars, eegEnVars>>

\* the response arrives: onDataLoaded(response.data), which may throw into
\* the catch block (err.response is then undefined); finally
uploadSucceeds(r, throws) ==
  /\ Follow("FileUploader")
  /\ r \in upInflight
  /\ upInflight' = upInflight \ {r}
  /\ uploader' = IF throws THEN uploadCatchFinally(uploader, uploadErrorText(Undefined))
                 ELSE [uploader EXCEPT !.uploading = FALSE]
  /\ upLast' = Event("loaded", 0, signalType, Undefined, FALSE, TRUE, uploader.uploading)
  /\ UNCHANGED <<signalType, selVars, eegAnVars, eegEnVars>>

\* the request fails: catch, finally
uploadFails(r, e) ==
  /\ Follow("FileUploader")
  /\ r \in upInflight
  /\ upInflight' = upInflight \ {r}
  /\ uploader' = uploadCatchFinally(uploader, uploadErrorText(e))
  /\ upLast' = Event("failed", 0, signalType, e, FALSE, FALSE, uploader.uploading)
  /\ UNCHANGED <<signalType, selVars, eegAnVars, eegEnVars>>

\* SignalSelector.fetchSignals up to its await (mount effect, Refresh button)
fetchSignals ==
  /\ Follow("SignalSelector")
  /\ selFetching < MaxInFlight
  /\ selFetching' = selFetching + 1
  /\ selector' = [selector EXCEPT !.error = Null]
  /\ UNCHANGED <<upVars, selInflight, eegAnVars, eegEnVars>>

\* fetchSignals after its await: setSignals, or catch
fetchSignalsSettles(ok, msg) ==
  /\ Follow("SignalSelector")
  /\ selFetching > 0
  /\ selFetching' = selFetching - 1
  /\ selector' = IF ok THEN selector ELSE [selector EXCEPT !.error = msg]
  /\ UNCHANGED <<upVars, selInflight, eegAnVars, eegEnVars>>

\* SignalSelector.handleSignalSelect up to its await
handleSignalSelect ==
  /\ Follow("SignalSelector")
  /\ selInflight < MaxInFlight
  /\ selInflight' = selInflight + 1
  /\ selector' = [loading |-> TRUE, error |-> Null]
  /\ UNCHANGED <<upVars, selFetching, eegAnVars, eegEnVars>>

\* handleSignalSelect after its await: the callbacks onSignalSelect and
\* onDataLoad, or catch (a throwing callback lands there too); finally
handleSignalSelectSettles(ok, msg) ==
  /\ Follow("SignalSelector")
  /\ selInflight > 0
  /\ selInflight' = selInflight - 1
  /\ selector' = [loading |-> FALSE, error |-> IF ok THEN selector.error ELSE msg]
  /\ UNCHANGED <<upVars, selFetching, eegAnVars, eegEnVars>>

\* Analysis/EEGPrediction: the effect on [signalData] and fetchPrediction up
\* to its await
fetchPrediction(t) ==
  /\ Follow("EEGPrediction")
  /\ t # "none"
  /\ eegAnInflight < MaxInFlight
  /\ eegAnInflight' = eegAnInflight + 1
  /\ eegAnalysis' = [loading |-> TRUE, error |-> Null]
  /\ UNCHANGED <<upVars, selVars, eegEnVars>>

\* fetchPrediction after its await: setPrediction, or catch
\* (err.message || 'Failed to get EEG prediction'); finally
fetchPredictionSettles(ok, msg) ==
  /\ Follow("EEGPrediction")
  /\ eegAnInflight > 0
  /\ eegAnInflight' = eegAnInflight - 1
  /\ eegAnalysis' = [loading |-> FALSE,
                     error |-> IF ok THEN eegAnalysis.error
                               ELSE IF msg = "" THEN "Failed to get EEG prediction"
                               ELSE msg]
  /\ UNCHANGED <<upVars, selVars, eegEnVars>>

\* the ensemble EEGPrediction: the effect on [signalData] and analyzeEEG up
\* to its await; only medical or eeg data is analysed
analyzeEEG(t) ==
  /\ Follow("EEGPredictionEnsemble")
  /\ t # "none"
  /\ t \in {"medical", "eeg"}
  /\ eegEnInflight < MaxInFlight
  /\ eegEnInflight' = eegEnInflight + 1
  /\ eegEnsemble' = [loading |-> TRUE, error |-> Null]
  /\ UNCHANGED <<upVars, selVars, eegAnVars>>

\* analyzeEEG after its await: setPredictions, or catch
\* (err.response?.data?.error || 'Error analyzing EEG'); finally
analyzeEEGSettles(ok, e) ==
  /\ Follow("EEGPredictionEnsemble")
  /\ eegEnInflight > 0
  /\ eegEnInflight' = eegEnInflight - 1
  /\ eegEnsemble' = [loading |-> FALSE,
                     error |-> IF ok THEN eegEnsemble.error
                               ELSE IF e = Undefined \/ e = "" THEN "Error analyzing EEG"
                               ELSE e]
  /\ UNCHANGED <<upVars, selVars, eegAnVars>>

NextRequests ==
  \/ \E t \in {"medical", "acoustic", "stock", "microbiome"} : setSignalType(t)
  \/ \E size \in { l * MegaByte + k : l \in {100, 200, 500}, k \in {0, 1} } : uploadFile(size)
  \/ \E r \in upInflight, throws \in BOOLEAN : uploadSucceeds(r, throws)
  \/ \E r \in upInflight, e \in {Undefined, "", "Unsupported file format"} : uploadFails(r, e)
  \/ fetchSignals
  \/ \E ok \in BOOLEAN, msg \in {"", "Network Error"} : fetchSignalsSettles(ok, msg)
  \/ handleSignalSelect
  \/ \E ok \in BOOLEAN, msg \in {"", "Network Error"} : handleSignalSelectSettles(ok, msg)
  \/ \E t \in {"none", "medical", "eeg", "stock"} : fetchPrediction(t)
  \/ \E ok \in BOOLEAN, msg \in {"", "Network Error"} : fetchPredictionSettles(ok, msg)
  \/ \E t \in {"none", "medical", "eeg", "stock"} : analyzeEEG(t)
  \/ \E ok \in BOOLEAN, e \in {Undefined, "", "Unsupported file format"} : analyzeEEGSettles(ok, e)


(***************************************************************************)
(* Polar viewer: channel, mode, window, sliding index and its playback     *)
(* timer.  Indices are 0-based as in the code: sample i of a channel is    *)
(* element i + 1 of the sequence.                                          *)
(***************************************************************************)
\* a non-stock response with its time axis
SignalResponse(rows, names, n) ==
  [type |-> "medical", date_labels |-> None, channel_names |-> Some(names),
   data |-> Some(rows), time |-> Some([i \in 1..n |-> i - 1]), channels |-> Len(rows)]

\* the data sets the polar viewer is given: two channels of six samples, one
\* of them constant; channels of unequal length with negative and large
\* samples; and a response naming a channel it has no row for
PolarResponses ==
  { SignalResponse(<<<<3, 1, 4, 1, 5, 9>>, <<7, 7, 7, 7, 7, 7>>>>, <<"ECG", "EEG">>, 6),
    SignalResponse(<<<<-5, 250, 0>>, <<2, 4, 6, 8>>>>, <<"ECG", "EEG">>, 4),
    SignalResponse(<<<<1, 2, 3, 4, 5>>>>, <<"ECG", "EEG">>, 5) }

pvChannels == PolarNormalizeData(pvData).channels
\* channels[selectedChannel] || [], for the response d and the channel c
SelectedDataOf(d, c) ==
  LET ch == PolarNormalizeData(d).channels
  IN  IF c + 1 \in 1..Len(ch) THEN ch[c + 1] ELSE <<>>

selectedData == SelectedDataOf(pvData, selectedChannel)

\* setTimeout(animate, 1000): a fresh id for a callback that closes over
\* speed and selectedData.length of the render that created it
setTimeout(q, ref, speed, len) ==
  LET id == FreshId(q, ref)
  IN  [q |-> q \cup {[id |-> id, speed |-> speed, len |-> len]}, ref |-> id]

clearTimeout(q, ref) == {t \in q : t.id # ref}

\* a cleanup that leaves the timer set
PolarCleanupNoClear(q, ref) == [q |-> q, ref |-> ref]

\* the playback effect's cleanup
PolarCleanup(q, ref) == [q |-> clearTimeout(q, ref), ref |-> ref]

\* the playback effect's body
PolarBody(q, ref, pb, m, speed, len) ==
  IF pb /\ m = "sliding"
    THEN setTimeout(q, ref, speed, len)
    ELSE [q |-> clearTimeout(q, ref), ref |-> ref]

\* the playback effect across a render: cleanup and body run when one of
\* [playback, speed, selectedData.length, mode] has changed
PolarEffect(q, ref, oldDeps, pb, speed, len, m) ==
  IF oldDeps = <<pb, speed, len, m>>
    THEN [q |-> q, ref |-> ref]
    ELSE LET c == PolarCleanup(q, ref)
         IN  PolarBody(c.q, c.ref, pb, m, speed, len)

\* dataRange in twentieths: min - range * 0.05 and max + range * 0.05, and
\* { min: 0, max: 1 } for an empty channel
polarDataRange(sel) ==
  IF Len(sel) = 0 THEN [min |-> 0, max |-> 20]
  ELSE LET vals == {sel[i] : i \in 1..Len(sel)}
           min == CHOOSE m \in vals : \A v \in vals : m <= v
           max == CHOOSE m \in vals : \A v \in vals : m >= v
       IN  [min |-> 20 * min - (max - min), max |-> 20 * max + (max - min)]

\* the radius of the sample at the 0-based index i, as the fraction
\* num / den, after Math.max(0, Math.min(100, radius)); nan when the sample
\* is undefined or the division is 0 / 0, which Math.min and Math.max pass on
polarRadius(sel, i, range, norm) ==
  IF i + 1 \notin 1..Len(sel) THEN [nan |-> TRUE, num |-> 0, den |-> 1]
  ELSE IF ~norm THEN [nan |-> FALSE, num |-> Max2(0, Min2(100, sel[i + 1])), den |-> 1]
  ELSE IF range.max = range.min THEN [nan |-> TRUE, num |-> 0, den |-> 1]
  ELSE [nan |-> FALSE,
        num |-> Max2(0, Min2(100 * (range.max - range.min),
                             100 * (20 * sel[i + 1] - range.min))),
        den |-> range.max - range.min]

\* polarData: index and radius of the points
polarData(sel, m, idx, window, norm) ==
  IF Len(sel) = 0 THEN <<>>
  ELSE LET startIdx == IF m = "sliding" THEN Max2(0, idx - window + 1) ELSE 0
           endIdx == IF m = "sliding" THEN idx + 1 ELSE Len(sel)
       IN  [k \in 1..(endIdx - startIdx) |->
              [index |-> startIdx + k - 1,
               radius |-> polarRadius(sel, startIdx + k - 1, polarDataRange(sel), norm)]]

pvDeps == <<pvPlayback, pvSpeed, Len(selectedData), mode>>

PvInit ==
  /\ pvData = NoResponse
  /\ selectedChannel = 0
  /\ mode = "cumulative"
  /\ timeWindow = 20
  /\ currentIndex = 0
  /\ pvPlayback = FALSE
  /\ pvSpeed = 1
  /\ pvTimerRef = 0
  /\ timers = {}
  /\ pvMounted = TRUE
  /\ pvNormalize = TRUE
  /\ pvLastOp = "mount"

\* the controls are rendered once there is a channel
PvInteractive == pvMounted /\ Len(pvChannels) > 0

\* a new data prop: only the playback effect can run
PvLoadData(d) ==
  /\ PvAlone
  /\ pvMounted
  /\ pvData' = d
  /\ LET e == PolarEffect(timers, pvTimerRef, pvDeps, pvPlayback, pvSpeed,
                          Len(SelectedDataOf(d, selectedChannel)), mode)
     IN  timers' = e.q /\ pvTimerRef' = e.ref
  /\ pvLastOp' = "load"
  /\ UNCHANGED pvNormalize
  /\ UNCHANGED <<selectedChannel, mode, timeWindow, currentIndex, pvPlayback,
                 pvSpeed, pvMounted>>

\* the channel select: the render with the new channel runs the playback
\* effect and the reset effect (setCurrentIndex(0), setPlayback(false)); the
\* render that follows runs the playback effect again
setSelectedChannel(c) ==
  /\ PvAlone
  /\ PvInteractive
  /\ c \in 0..(Len(PolarNormalizeData(pvData).channelNames) - 1)
  /\ c # selectedChannel
  /\ selectedChannel' = c
  /\ currentIndex' = 0
  /\ pvPlayback' = FALSE
  /\ LET len == Len(SelectedDataOf(pvData, c))
         e1 == PolarEffect(timers, pvTimerRef, pvDeps, pvPlayback, pvSpeed, len, mode)
         e2 == PolarEffect(e1.q, e1.ref, <<pvPlayback, pvSpeed, len, mode>>,
                           FALSE, pvSpeed, len, mode)
     IN  timers' = e2.q /\ pvTimerRef' = e2.ref
  /\ pvLastOp' = "channel"
  /\ UNCHANGED pvNormalize
  /\ UNCHANGED <<pvData, mode, timeWindow, pvSpeed, pvMounted>>

\* the mode select: setMode, setPlayback(false), setCurrentIndex(0)
setMode(m) ==
  /\ PvAlone
  /\ PvInteractive
  /\ m # mode
  /\ mode' = m
  /\ pvPlayback' = FALSE
  /\ currentIndex' = 0
  /\ LET e == PolarEffect(timers, pvTimerRef, pvDeps, FALSE, pvSpeed,
                          Len(selectedData), m)
     IN  timers' = e.q /\ pvTimerRef' = e.ref
  /\ pvLastOp' = "mode"
  /\ UNCHANGED pvNormalize
  /\ UNCHANGED <<pvData, selectedChannel, timeWindow, pvSpeed, pvMounted>>

\* the window slider, from 5 to min(50, selectedData.length)
setTimeWindow(w) ==
  /\ PvAlone
  /\ PvInteractive
  /\ mode = "sliding"
  /\ w \in 5..Min2(50, Len(selectedData))
  /\ timeWindow' = w
  /\ pvLastOp' = "window"
  /\ UNCHANGED pvNormalize
  /\ UNCHANGED <<pvData, selectedChannel, mode, currentIndex, pvPlayback, pvSpeed,
                 pvTimerRef, timers, pvMounted>>

\* the Play/Pause button of the sliding mode
PvTogglePlay ==
  /\ PvAlone
  /\ PvInteractive
  /\ mode = "sliding"
  /\ pvPlayback' = ~pvPlayback
  /\ LET e == PolarEffect(timers, pvTimerRef, pvDeps, ~pvPlayback, pvSpeed,
                          Len(selectedData), mode)
     IN  timers' = e.q /\ pvTimerRef' = e.ref
  /\ pvLastOp' = IF pvPlayback THEN "pause" ELSE "play"
  /\ UNCHANGED pvNormalize
  /\ UNCHANGED <<pvData, selectedChannel, mode, timeWindow, currentIndex, pvSpeed,
                 pvMounted>>

\* the speed select of the sliding mode
PvSetSpeed(sp) ==
  /\ PvAlone
  /\ PvInteractive
  /\ mode = "sliding"
  /\ sp # pvSpeed
  /\ pvSpeed' = sp
  /\ LET e == PolarEffect(timers, pvTimerRef, pvDeps, pvPlayback, sp,
                          Len(selectedData), mode)
     IN  timers' = e.q /\ pvTimerRef' = e.ref
  /\ pvLastOp' = "speed"
  /\ UNCHANGED pvNormalize
  /\ UNCHANGED <<pvData, selectedChannel, mode, timeWindow, currentIndex, pvPlayback,
                 pvMounted>>

\* the time slider of the sliding mode, from 0 to selectedData.length - 1
handleSliderChange(i) ==
  /\ PvAlone
  /\ PvInteractive
  /\ mode = "sliding"
  /\ i \in 0..(Len(selectedData) - 1)
  /\ currentIndex' = i
  /\ pvPlayback' = FALSE
  /\ LET e == PolarEffect(timers, pvTimerRef, pvDeps, FALSE, pvSpeed,
                          Len(selectedData), mode)
     IN  timers' = e.q /\ pvTimerRef' = e.ref
  /\ pvLastOp' = IF pvPlayback THEN "sliderStop" ELSE "slider"
  /\ UNCHANGED pvNormalize
  /\ UNCHANGED <<pvData, selectedChannel, mode, timeWindow, pvSpeed, pvMounted>>

\* one timer tick: the browser runs the callback t.  Its updater works on the
\* current index with the speed and length t closed over, the callback sets
\* the next timer, and the render that follows runs the playback effect if
\* the updater has stopped playback.  On an unmounted component the state
\* setters do nothing.
polarAnimate(t) ==
  /\ PvAlone
  /\ t \in timers
  /\ LET next == currentIndex + t.speed
         stop == next >= t.len
         r == setTimeout(timers \ {t}, pvTimerRef, t.speed, t.len)
         pb == IF stop /\ pvMounted THEN FALSE ELSE pvPlayback
         e == PolarEffect(r.q, r.ref, pvDeps, pb, pvSpeed, Len(selectedData), mode)
     IN  /\ currentIndex' = IF stop \/ ~pvMounted THEN currentIndex ELSE next
         /\ pvPlayback' = pb
         /\ timers' = e.q
         /\ pvTimerRef' = e.ref
  /\ pvLastOp' = "tick"
  /\ UNCHANGED pvNormalize
  /\ UNCHANGED <<pvData, selectedChannel, mode, timeWindow, pvSpeed, pvMounted>>

\* teardown: the playback effect's cleanup
PvUnmount ==
  /\ PvAlone
  /\ pvMounted
  /\ pvMounted' = FALSE
  /\ LET c == PolarCleanup(timers, pvTimerRef)
     IN  timers' = c.q /\ pvTimerRef' = c.ref
  /\ pvLastOp' = "unmount"
  /\ UNCHANGED pvNormalize
  /\ UNCHANGED <<pvData, selectedChannel, mode, timeWindow, currentIndex, pvPlayback,
                 pvSpeed>>

\* the Normalize Radius checkbox
setPvNormalize ==
  /\ PvAlone
  /\ PvInteractive
  /\ pvNormalize' = ~pvNormalize
  /\ pvLastOp' = "normalize"
  /\ UNCHANGED <<pvData, selectedChannel, mode, timeWindow, currentIndex, pvPlayback,
                 pvSpeed, pvTimerRef, timers, pvMounted>>

NextPolar ==
  \/ \E d \in PolarResponses : PvLoadData(d)
  \/ \E c \in 0..MaxChannels : setSelectedChannel(c)
  \/ \E m \in {"cumulative", "sliding"} : setMode(m)
  \/ \E w \in 5..50 : setTimeWindow(w)
  \/ PvTogglePlay
  \/ \E sp \in {1, 2, 3, 5} : PvSetSpeed(sp)
  \/ \E i \in 0..5 : handleSliderChange(i)
  \/ \E t \in timers : polarAnimate(t)
  \/ setPvNormalize
  \/ PvUnmount


(***************************************************************************)
(* Recurrence viewer.  The threshold slider runs over 0.01 .. 0.5 in steps *)
(* of 0.01 and is held in hundredths; a similarity is the exact fraction   *)
(* [num, den] with den > 0.                                                *)
(***************************************************************************)
DefaultTimeEnd == 100

\* dataRanges[idx] of a non-empty channel
dataRanges(ch) ==
  LET vals == {ch[i] : i \in 1..Len(ch)}
      min == CHOOSE m \in vals : \A v \in vals : m <= v
      max == CHOOSE m \in vals : \A v \in vals : m >= v
  IN  [min |-> min, max |-> max, range |-> max - min]

\* x - y without Math.abs
signedDistance(a, b) == a - b

\* Math.abs(x - y)
distance(a, b) == IF a >= b THEN a - b ELSE b - a

\* the matrix entry for the samples valX and valY: x and y are brought to
\* the common denominator rangeX * rangeY when normalizing
similarity(valX, valY, rX, rY, th, norm) ==
  LET rangeX == IF rX.range # 0 THEN rX.range ELSE 1
      rangeY == IF rY.range # 0 THEN rY.range ELSE 1
      dn == IF norm THEN distance((valX - rX.min) * rangeY, (valY - rY.min) * rangeX)
            ELSE distance(valX, valY)
      dd == IF norm THEN rangeX * rangeY ELSE 1
      den == dd * th
  IN  [num |-> Max2(0, den - 100 * dn), den |-> den]

\* similarity > 0.5
AboveHalf(v) == 2 * v.num > v.den

EmptyRecurrence == [points |-> <<>>, matrix |-> <<>>, maxX |-> 0, maxY |-> 0]

\* the points of one matrix row, then of all rows from i on, in loop order
RECURSIVE RowPoints(_, _, _, _)
RowPoints(row, i, j, n) ==
  IF j > n THEN <<>>
  ELSE (IF AboveHalf(row[j]) THEN <<[x |-> i - 1, y |-> j - 1, value |-> row[j]]>> ELSE <<>>)
       \o RowPoints(row, i, j + 1, n)

RECURSIVE MatrixPoints(_, _, _)
MatrixPoints(matrix, i, n) ==
  IF i > n THEN <<>>
  ELSE RowPoints(matrix[i], i, 1, n) \o MatrixPoints(matrix, i + 1, n)

\* a matrix whose entry (i, j) compares channel X at j with channel Y at i
similarityMatrixTransposed(dataX, dataY, start, n, rX, rY, th, norm) ==
  [i \in 1..n |-> [j \in 1..n |->
     similarity(dataX[start + j], dataY[start + i], rX, rY, th, norm)]]

\* the matrix of the n samples from start on
similarityMatrix(dataX, dataY, start, n, rX, rY, th, norm) ==
  [i \in 1..n |-> [j \in 1..n |->
     similarity(dataX[start + i], dataY[start + j], rX, rY, th, norm)]]

\* what the memo returns, and what it does to the error: "keep" (no
\* setError), "invalid" (setError('Invalid time range')) or "clear"
\* (setError(null))
recurrenceResult(matrix, error) ==
  [error |-> error,
   result |-> [points |-> MatrixPoints(matrix, 1, Len(matrix)), matrix |-> matrix,
               maxX |-> Len(matrix), maxY |-> Len(matrix)]]

\* the range check without setError('Invalid time range')
recurrenceRangeSilent(dataX, dataY, start, end, th, norm) ==
  IF start >= end THEN recurrenceResult(<<>>, "keep")
  ELSE recurrenceResult(similarityMatrix(dataX, dataY, start, end - start,
                                         dataRanges(dataX), dataRanges(dataY), th, norm),
                        "clear")

\* recurrenceData from the range check on
recurrenceRange(dataX, dataY, start, end, th, norm) ==
  IF start >= end THEN recurrenceResult(<<>>, "invalid")
  ELSE recurrenceResult(similarityMatrix(dataX, dataY, start, end - start,
                                         dataRanges(dataX), dataRanges(dataY), th, norm),
                        "clear")

recurrenceData(channels, cX, cY, tStart, tEnd, th, norm) ==
  IF Len(channels) = 0 \/ cX + 1 \notin 1..Len(channels) \/ cY + 1 \notin 1..Len(channels)
    THEN recurrenceResult(<<>>, "keep")
    ELSE recurrenceRange(channels[cX + 1], channels[cY + 1], Max2(0, tStart),
                         Min2(Min2(Len(channels[cX + 1]), Len(channels[cY + 1])), tEnd),
                         th, norm)

\* the viewer's state across one handler and the renders that follow it;
\* a render fills in recurrence
RvState(cX, cY, tStart, tEnd, err) ==
  [channelX |-> cX, channelY |-> cY, timeStart |-> tStart, timeEnd |-> tEnd,
   error |-> err, recurrence |-> EmptyRecurrence]

\* the memo's value r taken into the state, with its setError
RvApply(st, r) ==
  [st EXCEPT !.recurrence = r.result,
             !.error = CASE r.error = "keep" -> st.error
                         [] r.error = "invalid" -> "Invalid time range"
                         [] r.error = "clear" -> Null]

\* a render: the memo recomputed
RvRender(st, channels, th, norm) ==
  RvApply(st, recurrenceData(channels, st.channelX, st.channelY, st.timeStart,
                             st.timeEnd, th, norm))

\* the effect "Validate channels", with the channelX and channelY of the
\* render it belongs to; of two setChannelY calls the later one wins
ValidateChannels(st, n) ==
  [st EXCEPT
     !.channelX = IF st.channelX >= n THEN 0 ELSE st.channelX,
     !.channelY = IF st.channelX = st.channelY /\ n > 1 THEN (st.channelX + 1) % n
                  ELSE IF st.channelY >= n THEN Min2(1, n - 1)
                  ELSE st.channelY]

\* the effect "Update time range when data changes"
UpdateTimeRange(st, channels) ==
  IF Len(channels) > 0 /\ Len(channels[1]) > 0
    THEN [st EXCEPT !.timeEnd = Min2(DefaultTimeEnd, Len(channels[1]))]
    ELSE st

\* the renders after a handler: render (RvSettle), run the effects whose
\* dependencies changed, [channels.length, channelX, channelY] and [channels]
\* (RvEffects), and render again while they change the state (RvAgain)
RECURSIVE RvSettle(_, _, _, _, _, _, _)
RECURSIVE RvEffects(_, _, _, _, _, _, _)
RECURSIVE RvAgain(_, _, _, _, _, _)
RvAgain(r, t, channels, th, norm, k) ==
  IF k = 0 \/ t = r THEN r
  ELSE RvSettle(t, channels, th, norm,
                t.channelX # r.channelX \/ t.channelY # r.channelY, FALSE, k - 1)

RvEffects(r, channels, th, norm, validate, newData, k) ==
  RvAgain(r,
          IF newData
            THEN UpdateTimeRange(IF validate THEN ValidateChannels(r, Len(channels)) ELSE r,
                                 channels)
            ELSE IF validate THEN ValidateChannels(r, Len(channels)) ELSE r,
          channels, th, norm, k)

RvSettle(st, channels, th, norm, validate, newData, k) ==
  RvEffects(RvRender(st, channels, th, norm), channels, th, norm, validate, newData, k)

\* the recurrence viewer's data sets: three channels of four samples, one of
\* them constant; two channels of unequal length with negative samples; a
\* single channel
RecurrenceResponses ==
  { SignalResponse(<<<<0, 5, 10, 4>>, <<10, 0, 5, 5>>, <<3, 3, 3, 3>>>>,
                   <<"ECG", "EEG", "EMG">>, 4),
    SignalResponse(<<<<-4, 4, 0>>, <<1, 2>>>>, <<"ECG", "EEG">>, 3),
    SignalResponse(<<<<1, 2, 3>>>>, <<"ECG">>, 3) }

rvChannels == RecurrenceNormalizeData(rvData).channels

\* the state after useState and the mount effects: without data the effect
\* "Validate channels" has set channelY to Math.min(1, 0 - 1)
RvInit ==
  /\ rvData = NoResponse
  /\ channelX = 0
  /\ channelY = -1
  /\ timeStart = 0
  /\ timeEnd = DefaultTimeEnd
  /\ threshold = 10
  /\ normalize = TRUE
  /\ rvError = Null
  /\ recurrence = EmptyRecurrence
  /\ rvLastOp = "mount"

\* the state f that the renders after a handler have settled in
RvCommit(f, d, th, norm) ==
  /\ rvData' = d
  /\ threshold' = th
  /\ normalize' = norm
  /\ channelX' = f.channelX
  /\ channelY' = f.channelY
  /\ timeStart' = f.timeStart
  /\ timeEnd' = f.timeEnd
  /\ rvError' = f.error
  /\ recurrence' = f.recurrence

rvState == RvState(channelX, channelY, timeStart, timeEnd, rvError)

\* the controls are rendered once there are two channels
RvInteractive == Len(rvChannels) >= 2

\* a new data prop
RvLoadData(d) ==
  /\ RvAlone
  /\ rvLastOp' = "load"
  /\ RvCommit(RvSettle(rvState, RecurrenceNormalizeData(d).channels, threshold, normalize,
                       Len(RecurrenceNormalizeData(d).channels) # Len(rvChannels), TRUE,
                       MaxRounds),
              d, threshold, normalize)

\* a control has changed the state to st
RvChange(st, th, norm, validate) ==
  /\ RvAlone
  /\ RvInteractive
  /\ rvLastOp' = "control"
  /\ RvCommit(RvSettle(st, rvChannels, th, norm, validate, FALSE, MaxRounds),
              rvData, th, norm)

setChannelX(c) ==
  /\ c \in 0..(Len(RecurrenceNormalizeData(rvData).channelNames) - 1)
  /\ c # channelX
  /\ RvChange([rvState EXCEPT !.channelX = c], threshold, normalize, TRUE)

setChannelY(c) ==
  /\ c \in 0..(Len(RecurrenceNormalizeData(rvData).channelNames) - 1)
  /\ c # channelY
  /\ RvChange([rvState EXCEPT !.channelY = c], threshold, normalize, TRUE)

\* the Time Start slider, from 0 to max(0, (channels[0]?.length || 1) - 1)
setTimeStart(v) ==
  /\ RvInteractive
  /\ v \in 0..Max2(0, (IF Len(rvChannels[1]) # 0 THEN Len(rvChannels[1]) ELSE 1) - 1)
  /\ v # timeStart
  /\ RvChange([rvState EXCEPT !.timeStart = v], threshold, normalize, FALSE)

\* the Time End slider, from timeStart + 1 to channels[0]?.length || 100
setTimeEnd(v) ==
  /\ RvInteractive
  /\ v \in (timeStart + 1)..(IF Len(rvChannels[1]) # 0 THEN Len(rvChannels[1]) ELSE 100)
  /\ v # timeEnd
  /\ RvChange([rvState EXCEPT !.timeEnd = v], threshold, normalize, FALSE)

setThreshold(th) ==
  /\ th # threshold
  /\ RvChange(rvState, th, normalize, FALSE)

\* the Normalize checkbox
setNormalize == RvChange(rvState, threshold, ~normalize, FALSE)

NextRecurrence ==
  \/ \E d \in RecurrenceResponses : RvLoadData(d)
  \/ \E c \in 0..MaxChannels : setChannelX(c)
  \/ \E c \in 0..MaxChannels : setChannelY(c)
  \/ \E v \in 0..MaxTime : setTimeStart(v)
  \/ \E v \in 1..MaxTime : setTimeEnd(v)
  \/ \E th \in {1, 10, 50} : setThreshold(th)
  \/ setNormalize

(***************************************************************************)
(* The continuous viewer's chart.  Here the viewer is given the samples    *)
(* themselves: a sample is <<kind, value>>, kind being "number" or one of  *)
(* the values JavaScript has besides finite numbers.  The viewport is the  *)
(* one of the handlers above, in halves.                                   *)
(***************************************************************************)
Num(n) == <<"number", n>>
NaN == <<"NaN", 0>>
Infinity == <<"Infinity", 0>>
NullSample == <<"null", 0>>
UndefinedSample == <<"undefined", 0>>

\* isFinite(value): Number(null) is 0, Number(undefined) is NaN
isFinite(v) == v[1] \in {"number", "null"}

\* the "Skip invalid values" test
SkipInvalid(v) ==
  IF v = UndefinedSample \/ v = NullSample \/ ~isFinite(v) THEN Num(0) ELSE v

\* an array read: undefined outside the array
At(arr, i) == IF i + 1 \in 1..Len(arr) THEN arr[i + 1] ELSE UndefinedSample

\* the row's time: the label itself for stock data, else toFixed(2) of a
\* number
ChartTime(isStock, timePoint) ==
  IF isStock THEN timePoint
  ELSE IF timePoint[1] = "number" THEN <<"toFixed2", timePoint[2]>>
  ELSE <<"String", timePoint>>

\* Math.floor(viewport.start) without Math.max(0, ...)
chartStartUnclamped(vp) == vp.start \div 2

\* Math.max(0, Math.floor(viewport.start))
chartStart(vp) == Max2(0, vp.start \div 2)

\* Math.min(timeData.length, Math.floor(viewport.end))
chartEnd(vp, timeData) == Min2(Len(timeData), vp.end \div 2)

\* visibleChannels[channelIdx], undefined being falsy
IsVisible(vis, c) == c \in DOMAIN vis /\ vis[c]

\* one row; i is the loop index the row was made for, which the program's
\* row does not carry
ChartRow(b, vis, i) ==
  [i |-> i,
   time |-> ChartTime(b.isStock, At(b.timeData, i)),
   values |-> [c \in {c \in 0..(Len(b.channels) - 1) :
                        IsVisible(vis, c) /\ i < Len(b.channels[c + 1])}
                 |-> SkipInvalid(At(b.channels[c + 1], i))]]

formatChartData(b, vp, vis) ==
  IF Len(b.channels) = 0 \/ Len(b.timeData) = 0 THEN <<>>
  ELSE LET start == chartStart(vp)
           end == chartEnd(vp, b.timeData)
       IN  [k \in 1..(end - start) |-> ChartRow(b, vis, start + k - 1)]

\* the chart's data sets: a short channel beside a long one, with null, NaN,
\* undefined and infinite samples; a time axis longer than every channel;
\* stock data
ChartResponses ==
  { [type |-> "medical", date_labels |-> None, channel_names |-> Some(<<"ECG", "EEG">>),
     data |-> Some(<<<<Num(3), NullSample, NaN, Num(-2)>>, <<Num(7), UndefinedSample>>>>),
     time |-> Some([i \in 1..MaxTime |-> Num(i - 1)]), channels |-> 2],
    [type |-> "medical", date_labels |-> None, channel_names |-> None,
     data |-> Some(<<<<Infinity, Num(1)>>, <<Num(2), Num(4), Num(6)>>>>),
     time |-> Some([i \in 1..MaxTime |-> Num(i - 1)]), channels |-> 2],
    [type |-> "stock", date_labels |-> Some(<<<<"date", 1>>, <<"date", 2>>, <<"date", 3>>>>),
     channel_names |-> Some(<<"AAPL">>),
     data |-> Some(<<<<Num(10), Num(11), NullSample>>>>),
     time |-> None, channels |-> 1] }

chBundle == ContinuousNormalizeData(chData)

ChInit ==
  /\ chData = NoResponse
  /\ chViewport = [start |-> 0, end |-> Halves(DefaultWindow)]
  /\ visibleChannels = <<>>
  /\ chartData = <<>>
  /\ chOps = 0

\* the controls are rendered once data is there
ChInteractive == chData # NoResponse

\* a render with the viewport vp and the visibility vis
ChRender(d, vp, vis) ==
  /\ chData' = d
  /\ chViewport' = vp
  /\ visibleChannels' = vis
  /\ chartData' = formatChartData(ContinuousNormalizeData(d), vp, vis)

\* a new data prop, and the initialisation effect
ChLoadData(d) ==
  /\ ChAlone
  /\ LET b == ContinuousNormalizeData(d)
     IN  ChRender(d,
                  InitViewport([loaded |-> TRUE, nch |-> Len(b.channels),
                                tlen |-> Len(b.timeData)], chViewport),
                  IF Len(b.channels) > 0
                    THEN [c \in 0..(Len(b.channels) - 1) |-> TRUE]
                    ELSE visibleChannels)
  /\ UNCHANGED chOps

ChViewportOp(vp) ==
  /\ ChAlone
  /\ ChInteractive
  /\ chOps < MaxOps
  /\ chOps' = chOps + 1
  /\ ChRender(chData, vp, visibleChannels)

ChZoomIn == ChViewportOp(zoomInViewport(chViewport, Len(chBundle.timeData)))
ChZoomOut == ChViewportOp(zoomOutViewport(chViewport, Len(chBundle.timeData)))
ChPanLeft == ChViewportOp(panLeftViewport(chViewport))
ChPanRight == ChViewportOp(panRightViewport(chViewport, Len(chBundle.timeData)))
ChReset == ChViewportOp(resetViewport)

toggleChannel(channelIdx) ==
  /\ ChAlone
  /\ ChInteractive
  /\ channelIdx \in 0..(Len(chBundle.channels) - 1)
  /\ ChRender(chData, chViewport,
              [c \in DOMAIN visibleChannels \cup {channelIdx} |->
                 IF c = channelIdx THEN ~IsVisible(visibleChannels, c)
                 ELSE visibleChannels[c]])
  /\ UNCHANGED chOps

showAllChannels ==
  /\ ChAlone
  /\ ChInteractive
  /\ ChRender(chData, chViewport, [c \in 0..(Len(chBundle.channels) - 1) |-> TRUE])
  /\ UNCHANGED chOps

hideAllChannels ==
  /\ ChAlone
  /\ ChInteractive
  /\ ChRender(chData, chViewport, [c \in 0..(Len(chBundle.channels) - 1) |-> FALSE])
  /\ UNCHANGED chOps

NextChart ==
  \/ \E d \in ChartResponses : ChLoadData(d)
  \/ ChZoomIn
  \/ ChZoomOut
  \/ ChPanLeft
  \/ ChPanRight
  \/ ChReset
  \/ \E c \in 0..MaxChannels : toggleChannel(c)
  \/ showAllChannels
  \/ hideAllChannels

(***************************************************************************)
(* Specifications: one per component, over the same initial state          *)
(***************************************************************************)
Init == CvInit /\ NmInit /\ RqInit /\ PvInit /\ RvInit /\ ChInit

\* the continuous viewer
Spec == Init /\ [][Next]_vars

\* upload responses and their normalization
\* unattended playback; the browser runs every requested animation frame
SpecPlayback ==
  Init /\ [][NextPlayback]_vars /\ WF_vars(\E f \in frames : playFrame(f))

SpecNormalize == Init /\ [][NextNormalize]_vars

\* the request handlers
SpecRequests == Init /\ [][NextRequests]_vars

\* the polar viewer
SpecPolar == Init /\ [][NextPolar]_vars

\* the recurrence viewer
SpecRecurrence == Init /\ [][NextRecurrence]_vars

\* the continuous viewer's chart
SpecChart == Init /\ [][NextChart]_vars

(***************************************************************************)
(* Claims about the continuous viewer (specification Spec)                 *)
(***************************************************************************)

\* C1: no Zoom In, Zoom Out, Pan Left or Pan Right, applied in a reachable
\* viewer state, produces a viewport with start < 0 or end > timeData.length.
C1_PanZoomStaysInData ==
  lastOp \in {"zoomIn", "zoomOut", "panLeft", "panRight"} =>
    /\ viewport.start >= 0
    /\ viewport.end <= Halves(cvData.tlen)

\* C4: the playback loop acts only while playback.playing is true and the
\* component is mounted: every animation-frame callback the browser runs
\* finds the viewer playing and mounted, so after Pause or teardown no
\* callback requested earlier changes the viewport.
C4_FramesOnlyWhilePlaying ==
  [][(\E f \in frames : animate(f)) => (playback.playing /\ mounted)]_vars

\* C4 witness: frames have moved the viewport (only a 2.5x frame leaves a
\* fractional start), a frame was requested, and Pause has emptied the queue
C4_Witness ==
  /\ lastOp = "pause"
  /\ ~playback.playing
  /\ animationRef # 0
  /\ frames = {}
  /\ viewport.start % 2 = 1


\* C11: on data with at least one sample the viewport is never empty or
\* inverted: viewport.start < viewport.end after any sequence of data loads,
\* zooms, pans, Reset and playback frames.
C11_ViewportNeverInverted ==
  (cvData.loaded /\ cvData.tlen > 0) => viewport.start < viewport.end

\* C12: Reset returns the viewer to the viewport of the data load,
\* start = 0 and end = min(500, timeData.length).
C12_ResetRestoresLoadViewport ==
  lastOp = "reset" =>
    viewport = [start |-> 0, end |-> Halves(Min2(DefaultWindow, cvData.tlen))]

\* C18: a playback frame shifts viewport.start and viewport.end by
\* playback.speed, keeping the width; when the shifted end would reach or
\* pass timeData.length (timeData non-empty) the frame leaves the viewport
\* unchanged and sets playing to false, so a frame never moves viewport.end
\* to or past timeData.length.
C18_FrameShiftsBySpeedOrStops ==
  [][(\E f \in frames : animate(f)) =>
       IF cvData.tlen > 0 /\ viewport.end + playback.speed >= Halves(cvData.tlen)
         THEN viewport' = viewport /\ ~playback'.playing
         ELSE /\ viewport'.start = viewport.start + playback.speed
              /\ viewport'.end = viewport.end + playback.speed
              /\ viewport'.end - viewport'.start = viewport.end - viewport.start
              /\ cvData.tlen > 0 => viewport'.end < Halves(cvData.tlen)]_vars

\* C18 witness: frames have moved the viewport and the last one has stopped
\* playback short of the end of the data
C18_Witness ==
  /\ lastOp = "frame"
  /\ ~playback.playing
  /\ viewport.start > 0
  /\ viewport.end < Halves(cvData.tlen)
  /\ viewport.end + playback.speed >= Halves(cvData.tlen)

\* C17: for any loaded data and any speed > 0, once Play is pressed and no
\* further user input occurs, playback.playing eventually becomes false by
\* itself.
C17_PlaybackStopsByItself ==
  playback.playing ~> ~playback.playing

\* a viewport inside the data
InsideData(vp, tlen) == 0 <= vp.start /\ vp.start < vp.end /\ vp.end <= Halves(tlen)

\* C19: for a viewport with 0 <= start < end <= timeData.length, Pan Left
\* and Pan Right preserve the width end - start, also when clamped at the
\* first or last sample, and an unclamped Pan Left followed by Pan Right
\* restores the viewport.
C19_PanPreservesWidth ==
  /\ [][(handlePanLeft \/ handlePanRight) =>
          (InsideData(viewport, cvData.tlen) =>
             viewport'.end - viewport'.start = viewport.end - viewport.start)]_vars
  /\ []((Interactive /\ InsideData(viewport, cvData.tlen)
           /\ panLeftViewport(viewport).start = viewport.start
                - Halves((viewport.end - viewport.start) \div 10))
          => panRightViewport(panLeftViewport(viewport), cvData.tlen) = viewport)

\* C19 witness: a Pan Left clamped at the first sample, on a window narrower
\* than the data
C19_Witness ==
  /\ lastOp = "panLeft"
  /\ viewport.start = 0
  /\ 0 < viewport.end
  /\ viewport.end < Halves(cvData.tlen)

\* C20: in every reachable state Zoom In leaves the width at most what it
\* was, and Zoom Out leaves it at least what it was and at most
\* timeData.length.
C20_ZoomMonotonic ==
  [][/\ handleZoomIn =>
          viewport'.end - viewport'.start <= viewport.end - viewport.start
     /\ handleZoomOut =>
          /\ viewport'.end - viewport'.start >= viewport.end - viewport.start
          /\ viewport'.end - viewport'.start <= Halves(cvData.tlen)]_vars

(***************************************************************************)
(* Claims about normalizeData (specification SpecNormalize)                *)
(***************************************************************************)
RowsMatchTime(b) ==
  \A c \in 1..Len(b.channels) : Len(b.timeData) = Len(b.channels[c])

\* C3 as stated: every normalized bundle with at least one channel has
\* timeData.length equal to the length of each channel.
C3_TimeMatchesChannels ==
  \A v \in Viewers : Len(bundle[v].channels) > 0 => RowsMatchTime(bundle[v])

\* a response whose label arrays are aligned with its rows: each of time and
\* date_labels that it carries is as long as every row of data, and it
\* carries time, or is a stock response carrying date_labels
ValidUpload(d) ==
  /\ \A l \in {d.time, d.date_labels} :
       Present(l) => \A c \in 1..Len(OrEmpty(d.data)) : Len(d.data[1][c]) = Len(l[1])
  /\ Present(d.time) \/ (d.type = "stock" /\ Present(d.date_labels))

\* C3 amended: for a response whose label arrays are aligned with its rows,
\* every viewer's bundle with at least one channel has timeData.length equal
\* to the length of each channel.
C3_ValidUploadStaysAligned ==
  \A v \in Viewers :
    (ValidUpload(data) /\ Len(bundle[v].channels) > 0) => RowsMatchTime(bundle[v])

\* C3 witness: a stock response with date labels and no time array, two rows
\* of two samples, normalized by all three viewers
C3_Witness ==
  /\ ValidUpload(data)
  /\ data.type = "stock"
  /\ ~Present(data.time)
  /\ \A v \in Viewers :
       /\ Len(bundle[v].channels) = 2
       /\ Len(bundle[v].timeData) = 2
       /\ bundle[v].isStock

\* C7: every normalized bundle has exactly one display label per channel,
\* in each viewer and for stock and non-stock responses alike.
C7_OneLabelPerChannel ==
  \A v \in Viewers : Len(bundle[v].channelNames) = Len(bundle[v].channels)

(***************************************************************************)
(* Claims about the request handlers (specification SpecRequests)          *)
(***************************************************************************)

\* C6: a failed upload surfaces the server's error text, else 'Error
\* uploading file', calls onDataLoaded not, and posts no further request;
\* an upload attempt that posts a request has cleared the error first.
C6_FailedUploadOnlyShowsError ==
  /\ upLast.op = "failed" =>
       /\ upLast.err \in {Undefined, ""} => uploader.error = "Error uploading file"
       /\ upLast.err \notin {Undefined, ""} => uploader.error = upLast.err
       /\ ~upLast.called
       /\ ~upLast.posted
  /\ (upLast.op = "uploadFile" /\ upLast.posted) => uploader.error = Null

\* C6 witness: a request failed with no response from the server while
\* another one was in flight, and the fallback text is shown
C6_Witness ==
  /\ upLast.op = "failed"
  /\ upLast.err = Undefined
  /\ uploader.error = "Error uploading file"
  /\ upInflight # {}

\* the limits as the claim gives them, in MB
ClaimedLimit(t) ==
  CASE t = "medical" -> 500
    [] t = "acoustic" -> 200
    [] t = "stock" -> 100
    [] t = "microbiome" -> 500

\* C9: a file larger than the limit of the current signal type is rejected
\* before any network activity: the 'File too large' error is set, no
\* request is posted, uploading is left as it was (false when nothing is in
\* flight) and onDataLoaded is not called.
C9_TooLargeRejectedBeforeRequest ==
  (upLast.op = "uploadFile" /\ upLast.size > ClaimedLimit(upLast.type) * 1024 * 1024) =>
    /\ uploader.error = TooLargeMessage(upLast.type)
    /\ ~upLast.posted
    /\ ~upLast.called
    /\ uploader.uploading = upLast.before
    /\ upInflight = {} => ~uploader.uploading

\* C9 witness: a stock upload of 100 MB + 1 byte, rejected with nothing in
\* flight
C9_Witness ==
  /\ upLast.op = "uploadFile"
  /\ upLast.type = "stock"
  /\ upLast.size = 100 * 1024 * 1024 + 1
  /\ uploader.error = "File too large. Max size: 100MB"
  /\ upInflight = {}
  /\ ~uploader.uploading

\* C10: once no request of a component is in flight, its loading indicator
\* is off: FileUploader, SignalSelector.handleSignalSelect and both
\* EEGPrediction components.
C10_NoRequestNoIndicator ==
  /\ upInflight = {} => ~uploader.uploading
  /\ selInflight = 0 => ~selector.loading
  /\ eegAnInflight = 0 => ~eegAnalysis.loading
  /\ eegEnInflight = 0 => ~eegEnsemble.loading

\* C10 witness: the only upload in flight has failed while the indicator
\* was on, and the indicator is off
C10_Witness ==
  /\ upLast.op = "failed"
  /\ upLast.before
  /\ upInflight = {}
  /\ ~uploader.uploading
  /\ uploader.error # Null

(***************************************************************************)
(* Claims about the polar viewer (specification SpecPolar)                 *)
(***************************************************************************)

\* C5: the playback timer acts only while playback is true, mode is
\* 'sliding' and the component is mounted: every timer callback the browser
\* runs finds the viewer in that state, so after Pause, a slider move, a
\* mode change, a channel change or teardown no callback set earlier
\* advances currentIndex.
C5_TicksOnlyWhilePlaying ==
  [][(\E t \in timers : polarAnimate(t)) =>
       (pvPlayback /\ mode = "sliding" /\ pvMounted)]_vars

\* C5 witness: a slider move during playback has stopped it and cleared the
\* timer that was set
C5_Witness ==
  /\ pvLastOp = "sliderStop"
  /\ ~pvPlayback
  /\ pvTimerRef # 0
  /\ timers = {}
  /\ currentIndex > 0

\* C14: in sliding mode on a non-empty channel 0 <= currentIndex <
\* selectedData.length after any sequence of ticks, slider moves, channel
\* changes, mode changes and data replacements, so every point of the window
\* is built from an existing sample.
C14_SlidingIndexInsideChannel ==
  (mode = "sliding" /\ Len(selectedData) > 0) =>
    /\ 0 <= currentIndex /\ currentIndex < Len(selectedData)
    /\ LET points == polarData(selectedData, mode, currentIndex, timeWindow, pvNormalize)
       IN  \A k \in 1..Len(points) : points[k].index \in 0..(Len(selectedData) - 1)

\* C15: every point the polar viewer produces has a radius within [0, 100],
\* with Normalize Radius on or off and for every channel content.
C15_RadiusWithinBounds ==
  LET points == polarData(selectedData, mode, currentIndex, timeWindow, pvNormalize)
  IN  \A k \in 1..Len(points) :
        /\ ~points[k].radius.nan
        /\ 0 <= points[k].radius.num
        /\ points[k].radius.num <= 100 * points[k].radius.den

(***************************************************************************)
(* Claims about the recurrence viewer (specification SpecRecurrence)       *)
(***************************************************************************)

\* C2: for every threshold > 0 and every pair of sample indices in the
\* selected time range, with normalization on or off, the similarity stored
\* in the recurrence matrix satisfies 0 <= similarity <= 1.
C2_SimilarityInUnitInterval ==
  \A i \in 1..Len(recurrence.matrix) : \A j \in 1..Len(recurrence.matrix[i]) :
    LET v == recurrence.matrix[i][j]
    IN  v.den > 0 /\ 0 <= v.num /\ v.num <= v.den

\* C2 witness: a matrix of normalized samples that holds a similarity of 0,
\* one of 1 and one strictly between
C2_Witness ==
  /\ normalize
  /\ Len(recurrence.matrix) >= 2
  /\ \E i, j \in 1..Len(recurrence.matrix) : recurrence.matrix[i][j].num = 0
  /\ \E i, j \in 1..Len(recurrence.matrix) :
       recurrence.matrix[i][j].num = recurrence.matrix[i][j].den
  /\ \E i, j \in 1..Len(recurrence.matrix) :
       /\ recurrence.matrix[i][j].num > 0
       /\ recurrence.matrix[i][j].num < recurrence.matrix[i][j].den

\* C13: once the channel-validation effect has settled and the data has at
\* least two channels, channelX and channelY are valid channel indices and
\* differ, also when the component first rendered without data.
C13_ChannelsValidAndDistinct ==
  Len(rvChannels) >= 2 =>
    /\ channelX \in 0..(Len(rvChannels) - 1)
    /\ channelY \in 0..(Len(rvChannels) - 1)
    /\ channelX # channelY

\* C16: after data is loaded or replaced the time range fits it,
\* 0 <= timeStart < timeEnd <= length of the first channel, and the
\* computation on the new data reports no 'Invalid time range'.
C16_TimeRangeFitsNewData ==
  (rvLastOp = "load" /\ Len(rvChannels) > 0) =>
    /\ 0 <= timeStart
    /\ timeStart < timeEnd
    /\ timeEnd <= Len(rvChannels[1])
    /\ rvError # "Invalid time range"

\* both selected channels exist
SelectedChannels ==
  /\ channelX + 1 \in 1..Len(rvChannels)
  /\ channelY + 1 \in 1..Len(rvChannels)

\* the effective range [EffectiveStart, EffectiveEnd) of the selected channels
EffectiveStart == Max2(0, timeStart)

EffectiveEnd ==
  Min2(Min2(Len(rvChannels[channelX + 1]), Len(rvChannels[channelY + 1])), timeEnd)

\* C21: when the effective range is empty, max(0, timeStart) >= min(length
\* of channel X, length of channel Y, timeEnd), the error is 'Invalid time
\* range' and the result has no points, an empty matrix and maxX = maxY = 0;
\* when a non-empty range is computed the error is cleared, so a non-empty
\* matrix never comes with an error.
C21_EmptyRangeReportedNonEmptyCleared ==
  /\ SelectedChannels =>
       IF EffectiveStart >= EffectiveEnd
         THEN /\ rvError = "Invalid time range"
              /\ recurrence.points = <<>>
              /\ recurrence.matrix = <<>>
              /\ recurrence.maxX = 0
              /\ recurrence.maxY = 0
         ELSE rvError = Null /\ recurrence.matrix # <<>>
  /\ recurrence.matrix # <<>> => rvError = Null

\* C21 witness: a control has left an empty effective range on two existing
\* channels, and the error is shown
C21_Witness ==
  /\ rvLastOp = "control"
  /\ SelectedChannels
  /\ EffectiveStart >= EffectiveEnd
  /\ rvError = "Invalid time range"

\* the similarity of channel X at sample i and channel Y at sample j
\* (0-based) under the current threshold and normalization
Compared(i, j) ==
  similarity(rvChannels[channelX + 1][i + 1], rvChannels[channelY + 1][j + 1],
             dataRanges(rvChannels[channelX + 1]), dataRanges(rvChannels[channelY + 1]),
             threshold, normalize)

\* C22: for a non-empty effective range [start, end) the matrix is square
\* with end - start rows of end - start entries, entry (i - start, j - start)
\* compares channel X at sample i with channel Y at sample j, the points are
\* exactly the cells whose similarity is greater than 0.5, each with
\* 0 <= x, y < end - start, and maxX = maxY = end - start.
C22_MatrixSquareAndPointsExact ==
  (SelectedChannels /\ EffectiveStart < EffectiveEnd) =>
    LET n == EffectiveEnd - EffectiveStart
        m == recurrence.matrix
        pts == recurrence.points
    IN  /\ Len(m) = n
        /\ \A a \in 1..n : Len(m[a]) = n
        /\ \A a, b \in 1..n :
             m[a][b] = Compared(EffectiveStart + a - 1, EffectiveStart + b - 1)
        /\ \A k \in 1..Len(pts) :
             /\ pts[k].x \in 0..(n - 1)
             /\ pts[k].y \in 0..(n - 1)
             /\ pts[k].value = m[pts[k].x + 1][pts[k].y + 1]
             /\ 2 * pts[k].value.num > pts[k].value.den
        /\ \A a, b \in 1..n :
             2 * m[a][b].num > m[a][b].den =>
               \E k \in 1..Len(pts) : pts[k].x = a - 1 /\ pts[k].y = b - 1
        /\ \A k, l \in 1..Len(pts) :
             (pts[k].x = pts[l].x /\ pts[k].y = pts[l].y) => k = l
        /\ recurrence.maxX = n
        /\ recurrence.maxY = n

\* C22 witness: a range that starts after the first sample, with cells above
\* 0.5 and cells not above it, on two channels that differ
C22_Witness ==
  /\ SelectedChannels
  /\ channelX # channelY
  /\ EffectiveStart > 0
  /\ EffectiveEnd - EffectiveStart >= 2
  /\ recurrence.points # <<>>
  /\ Len(recurrence.points) < recurrence.maxX * recurrence.maxY

(***************************************************************************)
(* Claims about the chart (specification SpecChart)                        *)
(***************************************************************************)

\* a sample the chart must not plot as it is
NotPlottable(v) == v \in {NullSample, UndefinedSample, NaN, Infinity}

====
